---- MODULE Spec2Model ----
(***************************************************************************)
(* A model of the Synacor Challenge virtual machine of vm/vm.go: the       *)
(* Machine struct, LoadImage, Run/next and the 21 instruction handlers.    *)
(*                                                                         *)
(* Representation.  Machine.memory is a Go slice of 32768 uint16.  The     *)
(* model keeps it as the function of its non-zero cells (every cell not in *)
(* its domain holds 0), so that the real sizes 32768 and 65536 are kept.   *)
(* An image file is kept the same way: its byte length and its non-zero    *)
(* bytes.                                                                  *)
(*                                                                         *)
(* How a step ends is recorded in status and err:                          *)
(*   running   next() returned nil, Run loops                              *)
(*   returned  next() returned a non-nil error, Run returned it            *)
(*   panic     the Go runtime panicked (index out of range, integer divide *)
(*             by zero, failed type assertion); the process dies           *)
(*   exit      the process called os.Exit (logrus Fatal, or cmd/root.go on *)
(*             a file that cannot be read)                                 *)
(***************************************************************************)
EXTENDS Integers, Sequences, FiniteSets, TLC

VARIABLES memory, registers, stack, ip, status, err, output, lastOp,
          prev, image, lastIn

\* History, written by every step and read by none:
\*   lastOp  the opcode word of the last step (-1 before the first one)
\*   prev    ip, stack and registers as they were before the last step
\*   image   the file LoadImage read
\*   lastIn  the byte the last step read from the input (-1 when it read none)
vars == <<memory, registers, stack, ip, status, err, output, lastOp,
          prev, image, lastIn>>

(***************************************************************************)
(* Program constants                                                       *)
(***************************************************************************)
\* const maxSize uint16 = 1 << 15; also len(m.memory)
maxSize == 32768

\* uint16 arithmetic wraps modulo 2^16
wordMod == 65536

\* len(m.registers)
numRegisters == 8

(***************************************************************************)
(* Bounds of the model                                                     *)
(***************************************************************************)
\* push and call are not taken once the stack holds MaxStack values
MaxStack == 2

\* out is not taken once MaxOut characters were printed
MaxOut == 1

(***************************************************************************)
(* uint16 helpers                                                          *)
(***************************************************************************)
U16(x) == x % wordMod

RECURSIVE bitAnd(_, _)
bitAnd(a, b) ==
  IF a = 0 \/ b = 0 THEN 0
  ELSE (a % 2) * (b % 2) + 2 * bitAnd(a \div 2, b \div 2)

RECURSIVE bitOr(_, _)
bitOr(a, b) ==
  IF a = 0 THEN b
  ELSE IF b = 0 THEN a
  ELSE (IF a % 2 = 1 \/ b % 2 = 1 THEN 1 ELSE 0) + 2 * bitOr(a \div 2, b \div 2)

\* ^a on a uint16
bitNot16(a) == (wordMod - 1) - a

isMem(v) == v < maxSize

isReg(v) == v >= maxSize

(***************************************************************************)
(* Memory: the function of the non-zero cells                              *)
(***************************************************************************)
Mem(a) == IF a \in DOMAIN memory THEN memory[a] ELSE 0

memStore(a, v) ==
  IF v = 0
  THEN [x \in (DOMAIN memory) \ {a} |-> memory[x]]
  ELSE [x \in (DOMAIN memory) \cup {a} |-> IF x = a THEN v ELSE memory[x]]

\* the outcome of an expression that may panic
Ok(v) == [ok |-> TRUE, val |-> v, err |-> "none"]

Fail(e) == [ok |-> FALSE, val |-> 0, err |-> e]

\* m.memory[loc]: the Go runtime panics when loc is not below len(m.memory)
memAt(loc) == IF loc < maxSize THEN Ok(Mem(loc)) ELSE Fail("memory_index")

\* stack.Pop() of golang-collections: nil on an empty stack, else the top
stackPopNil == Len(stack) = 0

stackPop == stack[Len(stack)]

\* a Pop that leaves the value on the stack
stackRestKeeps == stack

stackRest == IF Len(stack) = 0 THEN stack ELSE SubSeq(stack, 1, Len(stack) - 1)

(***************************************************************************)
(* Images                                                                  *)
(***************************************************************************)
\* operand words: literals 0, 3, 32767; registers 0 and 1; register index 8
Operands == {0, 3, 32767, 32768, 32769, 32776}

\* words that are no opcode
UnknownOps == {22, 32768}

Opcodes == 0 .. 21

arity(op) ==
  IF op \in {4, 5, 9, 10, 11, 12, 13} THEN 3
  ELSE IF op \in {1, 7, 8, 14, 15, 16} THEN 2
  ELSE IF op \in {2, 3, 6, 17, 19, 20} THEN 1
  ELSE 0

\* the instructions under test: an opcode word and its operand words
TestInstrs ==
  UNION { IF arity(op) = 0 THEN {<<op>>}
          ELSE IF arity(op) = 1 THEN {<<op, a>> : a \in Operands}
          ELSE IF arity(op) = 2 THEN {<<op, a, b>> : a, b \in Operands}
          ELSE {<<op, a, b, c>> : a, b, c \in Operands}
        : op \in Opcodes \cup UnknownOps }

\* set-up instructions placed at address at:
\*   push 5;  set r0 3;  rmem r1 [at+1] (r1 becomes the word 32769)
PreludeKinds == {"push", "set", "rmem"}

preludeWords(kind, at) ==
  IF kind = "push" THEN <<2, 5>>
  ELSE IF kind = "set" THEN <<1, 32768, 3>>
  ELSE <<15, 32769, at + 1>>

preludeLen(kind) == IF kind = "push" THEN 2 ELSE 3

Preludes == {<<>>, <<"push">>, <<"set">>, <<"rmem">>, <<"set", "push", "rmem">>}

Cuts == {0, 1}

RECURSIVE preludesLen(_)
preludesLen(ps) ==
  IF ps = <<>> THEN 0 ELSE preludeLen(Head(ps)) + preludesLen(Tail(ps))

RECURSIVE preludesAt(_, _)
preludesAt(ps, at) ==
  IF ps = <<>> THEN <<>>
  ELSE preludeWords(Head(ps), at) \o preludesAt(Tail(ps), at + preludeLen(Head(ps)))

\* the words of a file that holds words ws from word index base on,
\* behind the words head at index 0; every other word is 0
cellsOf(head, base, ws) ==
  [a \in (0 .. Len(head) - 1) \cup (base .. base + Len(ws) - 1) |->
     IF a >= base THEN ws[a - base + 1] ELSE head[a + 1]]

\* a file as its length in bytes and its non-zero bytes (little-endian words);
\* odd = 1 drops the last byte
imageOf(cells, odd) ==
  LET n == 2 * (CHOOSE a \in DOMAIN cells : \A b \in DOMAIN cells : b <= a) + 2 - odd
      byteAt(j) == IF j % 2 = 0 THEN cells[j \div 2] % 256 ELSE cells[j \div 2] \div 256
      nz == {j \in UNION {{2 * a, 2 * a + 1} : a \in DOMAIN cells} :
               j < n /\ byteAt(j) # 0}
  IN [len |-> n, bytes |-> [j \in nz |-> byteAt(j)]]

\* the file of length 0
EmptyImage == [len |-> 0, bytes |-> <<>>]

\* where the program lies: at address 0, or at the top of memory behind a
\* jmp at address 0, with its last cut words beyond address 32767
Layouts == {[high |-> FALSE, cut |-> 0]} \cup {[high |-> TRUE, cut |-> c] : c \in Cuts}

programCells(ps, t, lay) ==
  IF lay.high
  THEN LET base == maxSize - (preludesLen(ps) + Len(t)) + lay.cut
       IN cellsOf(<<6, base>>, base, preludesAt(ps, base) \o t)
  ELSE cellsOf(<<>>, 0, preludesAt(ps, 0) \o t)

programImage(ps, t, lay) == imageOf(programCells(ps, t, lay), 0)

\* the words cells and, where cells has none, the words extra
withCells(cells, extra) ==
  [a \in DOMAIN cells \cup DOMAIN extra |->
     IF a \in DOMAIN cells THEN cells[a] ELSE extra[a]]

\* a call (to address 100, to address 3, through register 0) and a ret at
\* addresses 100 and 3
CallRetImages ==
  { imageOf(withCells(programCells(ps, <<17, a>>, lay), 100 :> 18 @@ 3 :> 18), 0) :
      ps \in Preludes, a \in {100, 3, 32768}, lay \in Layouts }


\* files of odd length, shorter and longer than 2 * 32768 bytes
OddImages ==
  { imageOf(cellsOf(<<21>>, base, <<21, 21>>), 1) : base \in {1, maxSize - 1} }

\* push v directly followed by pop d
PushPopImages ==
  { programImage(ps, <<2, v, 3, d>>, lay) :
      ps \in Preludes, v \in Operands, d \in Operands \cup {100}, lay \in Layouts }

\* words at and around the powers of two, and one of alternating bits
WordSamples == {0, 1, 2, 255, 256, 16383, 16384, 21845, 32766, 32767}

\* set r0 V; set r1 W; add or mult r2 r0 r1
ArithImages ==
  { programImage(<<>>, <<1, 32768, v, 1, 32769, w, op, 32770, 32768, 32769>>,
                 [high |-> FALSE, cut |-> 0]) :
      v \in WordSamples, w \in WordSamples, op \in {9, 10} }

\* set r0 V; not r1 r0; not r2 r1
NotNotImages ==
  { programImage(<<>>, <<1, 32768, v, 14, 32769, 32768, 14, 32770, 32769>>,
                 [high |-> FALSE, cut |-> 0]) : v \in WordSamples }

\* set R v directly followed by push R, for the first and the last register
SetReadImages ==
  { programImage(ps, <<1, r, v, 2, r>>, lay) :
      ps \in Preludes, r \in {32768, 32775}, v \in {0, 3, 32767, 32768, 32769},
      lay \in Layouts }

\* every file the model loads beside the programs of one instruction
ExtraImages ==
  OddImages \cup {EmptyImage} \cup CallRetImages \cup PushPopImages \cup ArithImages
    \cup NotNotImages \cup SetReadImages

(***************************************************************************)
(* NewMachine and LoadImage                                                *)
(***************************************************************************)
snapshot == [ip |-> ip, stack |-> stack, registers |-> registers]

Init ==
  /\ memory = <<>>
  /\ registers = [r \in 0 .. numRegisters - 1 |-> 0]
  /\ stack = <<>>
  /\ ip = 0
  /\ status = "new"
  /\ err = "none"
  /\ output = <<>>
  /\ lastOp = -1
  /\ prev = [ip |-> 0, stack |-> <<>>, registers |-> [r \in 0 .. numRegisters - 1 |-> 0]]
  /\ image = EmptyImage
  /\ lastIn = -1

imgByte(img, j) == IF j \in DOMAIN img.bytes THEN img.bytes[j] ELSE 0

\* the loop of LoadImage reaches word i when i < maxSize and 2*i < len(img);
\* img[2*i+1] panics when the file ends after byte 2*i
loadPanics(img) == img.len % 2 = 1 /\ (img.len - 1) \div 2 < maxSize

loadedMemory(img) ==
  LET word(i) == bitOr(imgByte(img, 2 * i), U16(imgByte(img, 2 * i + 1) * 256))
      nz == {i \in {j \div 2 : j \in DOMAIN img.bytes} :
               i < maxSize /\ 2 * i < img.len /\ word(i) # 0}
  IN [i \in nz |-> word(i)]

loadInto(img) ==
  /\ image' = img
  /\ IF loadPanics(img)
     THEN /\ status' = "panic"
          /\ err' = "image_index"
          /\ UNCHANGED <<memory, registers, stack, ip, output, lastOp, prev, lastIn>>
     ELSE /\ memory' = loadedMemory(img)
          /\ status' = "running"
          /\ UNCHANGED <<registers, stack, ip, err, output, lastOp, prev, lastIn>>

LoadImage ==
  /\ status = "new"
  /\ \E readOK \in BOOLEAN :
       IF ~readOK
       THEN /\ status' = "exit"
            /\ err' = "read_file"
            /\ UNCHANGED <<memory, registers, stack, ip, output, lastOp,
                           prev, image, lastIn>>
       ELSE \E img \in ExtraImages \cup
                       {programImage(ps, t, lay) :
                          ps \in Preludes, t \in TestInstrs, lay \in Layouts} :
              loadInto(img)

(***************************************************************************)
(* How a step ends                                                         *)
(***************************************************************************)
\* a Go runtime panic: nothing was written before it
Panic(kind) ==
  /\ status' = "panic"
  /\ err' = kind
  /\ UNCHANGED <<memory, registers, stack, ip, output>>

\* the handler returns a non-nil error, which Run returns to its caller
ReturnErr(kind) ==
  /\ status' = "returned"
  /\ err' = kind
  /\ UNCHANGED <<memory, registers, stack, ip, output>>

firstErr(rs) ==
  IF \A k \in DOMAIN rs : rs[k].ok THEN "none"
  ELSE rs[CHOOSE k \in DOMAIN rs : ~rs[k].ok /\ \A j \in DOMAIN rs : j < k => rs[j].ok].err

(***************************************************************************)
(* getVal and setVal                                                       *)
(***************************************************************************)
\* the operand word itself, also when it names a register
getValRaw(loc) == memAt(loc)

\* m.registers[val%maxSize] panics when the index is not below 8
getVal(loc) ==
  LET w == memAt(loc)
  IN IF ~w.ok THEN w
     ELSE IF isReg(w.val)
          THEN IF w.val % maxSize < numRegisters
               THEN Ok(registers[w.val % maxSize])
               ELSE Fail("register_index_getVal")
          ELSE Ok(w.val)

setValPanics(loc) == isReg(loc) /\ loc % maxSize >= numRegisters

\* a setVal whose memory write is not in the else branch
setValNoElse(loc, val) ==
  /\ registers' = IF isReg(loc) THEN [registers EXCEPT ![loc % maxSize] = val]
                  ELSE registers
  /\ memory' = memStore(loc % maxSize, val)

setVal(loc, val) ==
  IF isReg(loc)
  THEN /\ registers' = [registers EXCEPT ![loc % maxSize] = val]
       /\ UNCHANGED memory
  ELSE /\ memory' = memStore(loc, val)
       /\ UNCHANGED registers

\* m.setVal(dest, val); m.ip += width; return nil
store(dest, val, width) ==
  IF setValPanics(dest) THEN Panic("register_index_setVal")
  ELSE /\ setVal(dest, val)
       /\ ip' = U16(ip + width)
       /\ UNCHANGED <<stack, status, err, output>>

(***************************************************************************)
(* next: the dispatch on m.memory[m.ip]                                    *)
(***************************************************************************)
\* the running machine is about to execute the opcode word op
atOp(op) ==
  /\ status = "running"
  /\ ip < maxSize
  /\ Mem(ip) = op

dispatch(op) ==
  /\ atOp(op)
  /\ lastOp' = op
  /\ prev' = snapshot
  /\ op # 20 => lastIn' = -1
  /\ UNCHANGED image

\* m.memory[m.ip] with m.ip beyond the memory
fetchOutOfRange ==
  /\ status = "running"
  /\ ip >= maxSize
  /\ Panic("memory_index")
  /\ prev' = snapshot
  /\ lastIn' = -1
  /\ UNCHANGED <<lastOp, image>>

halt ==
  /\ dispatch(0)
  /\ ReturnErr("ErrorHalt")

\* logrus Fatal logs ip and instr and calls os.Exit(1); the return of
\* ErrorUnknownInstruction behind it is never reached
unknownInstruction ==
  /\ status = "running"
  /\ ip < maxSize
  /\ Mem(ip) \notin Opcodes
  /\ lastOp' = Mem(ip)
  /\ prev' = snapshot
  /\ lastIn' = -1
  /\ UNCHANGED image
  /\ status' = "exit"
  /\ err' = "unknown_instruction"
  /\ UNCHANGED <<memory, registers, stack, ip, output>>

(***************************************************************************)
(* The instruction handlers                                                *)
(***************************************************************************)
\* the register check of set, off by one
setIdxInvalidOffByOne(idx) == idx > 8

setIdxInvalid(idx) == idx > 7

\* a set that applies write resolution to its raw destination word
setWriteResolved(raw, idx, val) == setVal(raw, val)

\* m.registers[idx] = val
setWrite(raw, idx, val) ==
  /\ registers' = [registers EXCEPT ![idx] = val]
  /\ UNCHANGED memory

set ==
  /\ dispatch(1)
  /\ LET a == memAt(U16(ip + 1))
     IN IF ~a.ok THEN Panic(a.err)
        ELSE LET idx == a.val % maxSize
             IN IF setIdxInvalid(idx) THEN ReturnErr("invalid_register")
                ELSE LET val == getVal(U16(ip + 2))
                     IN IF ~val.ok THEN Panic(val.err)
                        ELSE IF idx >= numRegisters
                        THEN Panic("register_index_set")
                        ELSE /\ setWrite(a.val, idx, val.val)
                             /\ ip' = U16(ip + 3)
                             /\ UNCHANGED <<stack, status, err, output>>

push ==
  /\ dispatch(2)
  /\ Len(stack) < MaxStack
  /\ LET val == getVal(U16(ip + 1))
     IN IF ~val.ok THEN Panic(val.err)
        ELSE /\ stack' = Append(stack, val.val)
             /\ ip' = U16(ip + 2)
             /\ UNCHANGED <<memory, registers, status, err, output>>

\* val.(uint16) panics on the nil that Pop returns for an empty stack
pop ==
  /\ dispatch(3)
  /\ LET dest == memAt(U16(ip + 1))
     IN IF ~dest.ok THEN Panic(dest.err)
        ELSE IF stackPopNil
        THEN /\ status' = "panic"
             /\ err' = "nil_type_assertion"
             /\ UNCHANGED <<memory, registers, stack, ip, output>>
        ELSE IF setValPanics(dest.val)
        THEN /\ status' = "panic"
             /\ err' = "register_index_setVal"
             /\ stack' = stackRest
             /\ UNCHANGED <<memory, registers, ip, output>>
        ELSE /\ setVal(dest.val, stackPop)
             /\ stack' = stackRest
             /\ ip' = U16(ip + 2)
             /\ UNCHANGED <<status, err, output>>

\* the second and third operand of a three-operand instruction
opA == getVal(U16(ip + 2))

opB == getVal(U16(ip + 3))

\* dest, a and b are read in this order, then the value v is computed from a
\* and b and stored
threeOperand(v) ==
  LET dest == memAt(U16(ip + 1))
      e == firstErr(<<dest, opA, opB>>)
  IN IF e # "none" THEN Panic(e)
     ELSE IF ~v.ok THEN Panic(v.err)
     ELSE store(dest.val, v.val, 4)

eq ==
  /\ dispatch(4)
  /\ threeOperand(Ok(IF opA.val = opB.val THEN 1 ELSE 0))

gt ==
  /\ dispatch(5)
  /\ threeOperand(Ok(IF opA.val > opB.val THEN 1 ELSE 0))

\* m.ip = dest with dest the raw word m.memory[m.ip+1]
jump ==
  /\ dispatch(6)
  /\ LET dest == memAt(U16(ip + 1))
     IN IF ~dest.ok THEN Panic(dest.err)
        ELSE /\ ip' = dest.val
             /\ UNCHANGED <<memory, registers, stack, status, err, output>>

\* the tested value of jt and jf
condVal == getVal(U16(ip + 1))

\* a taken jump that adds the width of the instruction to the target
condJumpAddsWidth(taken) ==
  LET dest == getVal(U16(ip + 2))
      e == firstErr(<<condVal, dest>>)
  IN IF e # "none" THEN Panic(e)
     ELSE /\ ip' = IF taken THEN U16(dest.val + 3) ELSE U16(ip + 3)
          /\ UNCHANGED <<memory, registers, stack, status, err, output>>

condJump(taken) ==
  LET dest == getVal(U16(ip + 2))
      e == firstErr(<<condVal, dest>>)
  IN IF e # "none" THEN Panic(e)
     ELSE /\ ip' = IF taken THEN dest.val ELSE U16(ip + 3)
          /\ UNCHANGED <<memory, registers, stack, status, err, output>>

jt ==
  /\ dispatch(7)
  /\ condJump(condVal.val # 0)

jf ==
  /\ dispatch(8)
  /\ condJump(condVal.val = 0)

\* the sum without the reduction modulo maxSize
addValueNoReduction(a, b) == U16(a + b)

\* (a+b)%maxSize on uint16
addValue(a, b) == U16(a + b) % maxSize

\* (a*b)%maxSize on uint16
multValue(a, b) == U16(a * b) % maxSize

add ==
  /\ dispatch(9)
  /\ threeOperand(Ok(addValue(opA.val, opB.val)))

mult ==
  /\ dispatch(10)
  /\ threeOperand(Ok(multValue(opA.val, opB.val)))

\* a%b panics with an integer divide by zero when b is 0
mod ==
  /\ dispatch(11)
  /\ threeOperand(IF opB.val = 0 THEN Fail("divide_by_zero") ELSE Ok(opA.val % opB.val))

and ==
  /\ dispatch(12)
  /\ threeOperand(Ok(bitAnd(opA.val, opB.val)))

or ==
  /\ dispatch(13)
  /\ threeOperand(Ok(bitOr(opA.val, opB.val)))

\* the complement of all 16 bits
notValuePlain(a) == bitNot16(a)

\* a = a << 1; a = ^a; a = a >> 1
notValue(a) == bitNot16(U16(a * 2)) \div 2

not ==
  /\ dispatch(14)
  /\ LET dest == memAt(U16(ip + 1))
         a == getVal(U16(ip + 2))
         e == firstErr(<<dest, a>>)
     IN IF e # "none" THEN Panic(e)
        ELSE store(dest.val, notValue(a.val), 3)

rmem ==
  /\ dispatch(15)
  /\ LET dest == memAt(U16(ip + 1))
         addr == getVal(U16(ip + 2))
         e == firstErr(<<dest, addr>>)
     IN IF e # "none" THEN Panic(e)
        ELSE LET a == memAt(addr.val)
             IN IF ~a.ok THEN Panic(a.err)
                ELSE store(dest.val, a.val, 3)

wmem ==
  /\ dispatch(16)
  /\ LET dest == getVal(U16(ip + 1))
         a == getVal(U16(ip + 2))
         e == firstErr(<<dest, a>>)
     IN IF e # "none" THEN Panic(e)
        ELSE IF ~isMem(dest.val) THEN Panic("memory_index")
        ELSE /\ memory' = memStore(dest.val, a.val)
             /\ ip' = U16(ip + 3)
             /\ UNCHANGED <<registers, stack, status, err, output>>

\* the return address, one word short
returnAddressOffByOne == U16(ip + 1)

\* m.ip + 2
returnAddress == U16(ip + 2)

call ==
  /\ dispatch(17)
  /\ Len(stack) < MaxStack
  /\ LET dest == getVal(U16(ip + 1))
     IN IF ~dest.ok THEN Panic(dest.err)
        ELSE /\ stack' = Append(stack, returnAddress)
             /\ ip' = dest.val
             /\ UNCHANGED <<memory, registers, status, err, output>>

\* the emptiness check of ret, never true
retStackEmptyNever == Len(stack) < 0

retStackEmpty == Len(stack) = 0

ret ==
  /\ dispatch(18)
  /\ IF retStackEmpty THEN ReturnErr("ret_empty_stack")
     ELSE IF stackPopNil THEN Panic("nil_type_assertion")
     ELSE /\ ip' = stackPop
          /\ stack' = stackRest
          /\ UNCHANGED <<memory, registers, status, err, output>>

out ==
  /\ dispatch(19)
  /\ Len(output) < MaxOut
  /\ LET val == getVal(U16(ip + 1))
     IN IF ~val.ok THEN Panic(val.err)
        ELSE /\ output' = Append(output, val.val)
             /\ ip' = U16(ip + 2)
             /\ UNCHANGED <<memory, registers, stack, status, err>>

\* the byte os.Stdin.Read delivers; 0 when the stream has ended
InBytes == {0, 13, 65}

\* the carriage return, dropped without a write, never dropped
inSkipsNever(b) == FALSE

\* uint16(b[0]) != 13 guards the write
inSkips(b) == b = 13

in ==
  /\ dispatch(20)
  /\ LET dest == memAt(U16(ip + 1))
     IN IF ~dest.ok THEN Panic(dest.err) /\ lastIn' = -1
        ELSE \E b \in InBytes :
               /\ lastIn' = b
               /\ IF ~inSkips(b)
                  THEN store(dest.val, b, 2)
                  ELSE /\ ip' = U16(ip + 2)
                       /\ UNCHANGED <<memory, registers, stack, status, err, output>>

noop ==
  /\ dispatch(21)
  /\ ip' = U16(ip + 1)
  /\ UNCHANGED <<memory, registers, stack, status, err, output>>

(***************************************************************************)
(* Run: next() until it returns an error                                   *)
(***************************************************************************)
Next ==
  \/ LoadImage
  \/ fetchOutOfRange
  \/ halt
  \/ set
  \/ push
  \/ pop
  \/ eq
  \/ gt
  \/ jump
  \/ jt
  \/ jf
  \/ add
  \/ mult
  \/ mod
  \/ and
  \/ or
  \/ not
  \/ rmem
  \/ wmem
  \/ call
  \/ ret
  \/ out
  \/ in
  \/ noop
  \/ unknownInstruction

Spec == Init /\ [][Next]_vars

(***************************************************************************)
(* Properties                                                              *)
(***************************************************************************)
\* the operand word k of the instruction at ip is inside the memory
operandInRange(k) == U16(ip + k) < maxSize

operandWord(k) == Mem(U16(ip + k))

\* a word that names a register beyond the eighth
namesInvalidRegister(w) == isReg(w) /\ w % maxSize >= numRegisters

\* C1: while the machine runs, ip is in 0 .. 32767.
C1_IpInRange == status = "running" => ip \in 0 .. maxSize - 1

\* C2: a memory access at an index outside 0 .. 32767 (opcode fetch, operand
\* fetch, rmem, wmem) ends the step with an error returned to the caller,
\* not with a crash.
C2_OutOfRangeReturnsError == err = "memory_index" => status = "returned"

\* C3: a mod whose divisor is 0 ends the step with an error returned to the
\* caller, not with a crash.
C3_ModByZeroReturnsError ==
  (lastOp = 11 /\ err = "divide_by_zero") => status = "returned"

\* C4: a pop on an empty stack returns an error to the caller and writes
\* nothing to its destination.
C4_PopEmptyReturnsError ==
  [][(atOp(3) /\ operandInRange(1) /\ stack = <<>>)
       => (status' = "returned" /\ UNCHANGED <<memory, registers>>)]_vars

\* C5: a ret on an empty stack returns an error to the caller and leaves ip,
\* the stack, the memory and the registers unchanged.
C5_RetEmptyReturnsError ==
  [][(atOp(18) /\ stack = <<>>)
       => (/\ status' = "returned"
           /\ err' = "ret_empty_stack"
           /\ UNCHANGED <<ip, stack, memory, registers>>)]_vars

C5_Witness ==
  /\ lastOp = 18
  /\ status = "returned"
  /\ err = "ret_empty_stack"
  /\ stack = <<>>

\* C6: an opcode word outside 0 .. 21 makes the step return the
\* UnknownInstruction error to the caller and leaves ip, memory, registers and
\* stack unchanged.
C6_UnknownReturnsError ==
  [][(status = "running" /\ ip < maxSize /\ Mem(ip) \notin Opcodes)
       => (/\ status' = "returned"
           /\ err' = "unknown_instruction"
           /\ UNCHANGED <<ip, memory, registers, stack>>)]_vars

\* C7: a set whose destination word reduces modulo 32768 to an index of 8 or
\* more returns an error and writes nothing: ip, registers, memory and stack
\* are unchanged.
C7_SetInvalidRegister ==
  [][(atOp(1) /\ operandInRange(1) /\ operandWord(1) % maxSize >= numRegisters)
       => (/\ status' = "returned"
           /\ err' = "invalid_register"
           /\ UNCHANGED <<ip, registers, memory, stack>>)]_vars

C7_Witness ==
  /\ lastOp = 1
  /\ status = "returned"
  /\ err = "invalid_register"
  /\ namesInvalidRegister(operandWord(1))

\* C8: pop (on a stack that is not empty), eq, gt, add, mult, mod, and, or,
\* not, rmem and in reject a destination word that names a register index of
\* 8 or more with an error returned to the caller, and modify no state.
C8_WriteInvalidRegister ==
  [][(/\ status = "running"
      /\ ip < maxSize
      /\ Mem(ip) \in {3, 4, 5, 9, 10, 11, 12, 13, 14, 15, 20}
      /\ operandInRange(1)
      /\ namesInvalidRegister(operandWord(1))
      /\ Mem(ip) = 3 => stack # <<>>)
       => (/\ status' = "returned"
           /\ UNCHANGED <<ip, registers, memory, stack>>)]_vars

\* C9: jmp sets ip to the read-resolved value of its operand: the word itself
\* when it is below 32768, the contents of register (word mod 32768) otherwise.
C9_JmpReadResolved ==
  [][(/\ atOp(6)
      /\ operandInRange(1)
      /\ ~namesInvalidRegister(operandWord(1)))
       => ip' = IF operandWord(1) < maxSize
                THEN operandWord(1)
                ELSE registers[operandWord(1) % maxSize]]_vars

\* C10: every value in a register, on the stack, or written to memory by an
\* instruction is a word in 0 .. 32767.
C10_StoredValuesAreWords ==
  [][/\ \A r \in DOMAIN registers' : registers'[r] < maxSize
     /\ \A k \in DOMAIN stack' : stack'[k] < maxSize
     /\ status = "running" =>
          \A a \in DOMAIN memory' : memory'[a] # Mem(a) => memory'[a] < maxSize]_vars

\* the value the read resolution gives the operand word w under registers regs
readResolved(w, regs) == IF w < maxSize THEN w ELSE regs[w % maxSize]

\* C11: a call at address p followed immediately by a ret at its target leaves
\* ip = p + 2 and the stack as it was before the call.
C11_CallRet ==
  [][(atOp(18) /\ lastOp = 17)
       => (/\ status' = "running"
           /\ ip' = prev.ip + 2
           /\ stack' = prev.stack)]_vars

C11_Witness ==
  /\ lastOp = 18
  /\ status = "running"
  /\ ip >= 2
  /\ Mem(ip - 2) = 17
  /\ stack # <<>>
  /\ prev.stack = Append(stack, ip)

\* what the destination word d names, after the step
cellAfter(d) ==
  IF isReg(d) THEN registers'[d % maxSize]
  ELSE IF d \in DOMAIN memory' THEN memory'[d] ELSE 0

\* C12: push of an operand whose value is v, immediately followed by pop into
\* a valid destination (a memory address or a register 0..7), leaves v in the
\* destination and the stack as deep as before the push.
C12_PushPop ==
  [][(/\ atOp(3)
      /\ lastOp = 2
      /\ operandInRange(1)
      /\ ~namesInvalidRegister(operandWord(1)))
       => (/\ status' = "running"
           /\ cellAfter(operandWord(1)) =
                readResolved(Mem(U16(prev.ip + 1)), prev.registers)
           /\ Len(stack') = Len(prev.stack))]_vars

\* after push r1 (r1 = 32769) and pop to memory cell 3, on a stack that held 5
C12_Witness ==
  /\ lastOp = 3
  /\ status = "running"
  /\ ip >= 4
  /\ Mem(ip - 4) = 2
  /\ Mem(ip - 2) = 3
  /\ Mem(ip - 1) = 3
  /\ Mem(3) = 32769
  /\ stack = <<5>>
  /\ prev.stack = <<5, 32769>>

\* the operand words 1 .. n of the instruction at ip lie inside the memory and
\* name no register beyond the eighth
operandsValid(n) ==
  \A k \in 1 .. n : operandInRange(k) /\ ~namesInvalidRegister(operandWord(k))

operandValue(k) == readResolved(operandWord(k), registers)

\* C13: for operand values a, b in 0 .. 32767, add writes (a+b) mod 32768 and
\* mult writes (a*b) mod 32768, computed over the integers; and neither ever
\* writes a value of 32768 or more.
C13_AddMult ==
  [][/\ (/\ status = "running" /\ ip < maxSize /\ Mem(ip) \in {9, 10}
         /\ operandsValid(3)
         /\ operandValue(2) < maxSize
         /\ operandValue(3) < maxSize)
          => (/\ status' = "running"
              /\ cellAfter(operandWord(1)) =
                   IF Mem(ip) = 9
                   THEN (operandValue(2) + operandValue(3)) % maxSize
                   ELSE (operandValue(2) * operandValue(3)) % maxSize)
     /\ (/\ status = "running" /\ ip < maxSize /\ Mem(ip) \in {9, 10}
         /\ status' = "running")
          => cellAfter(operandWord(1)) < maxSize]_vars

\* after mult r2 r0 r1 with r0 = r1 = 32767, whose product exceeds 16 bits
C13_Witness ==
  /\ lastOp = 10
  /\ status = "running"
  /\ registers[0] = 32767
  /\ registers[1] = 32767
  /\ registers[2] = 1
  /\ Mem(prev.ip + 1) = 32770

\* x with its n low bits complemented and every other bit cleared
RECURSIVE flipBits(_, _)
flipBits(x, n) ==
  IF n = 0 THEN 0 ELSE (1 - (x % 2)) + 2 * flipBits(x \div 2, n - 1)

\* C14: for a word x in 0 .. 32767, not writes (~x) & 0x7FFF; and a second not
\* whose operand is the register the first one wrote returns x.
C14_Not ==
  [][/\ (atOp(14) /\ operandsValid(2) /\ operandValue(2) < maxSize)
          => (/\ status' = "running"
              /\ cellAfter(operandWord(1)) = flipBits(operandValue(2), 15))
     /\ (/\ atOp(14) /\ lastOp = 14 /\ operandsValid(2)
         /\ isReg(operandWord(2))
         /\ operandWord(2) = Mem(U16(prev.ip + 1))
         /\ readResolved(Mem(U16(prev.ip + 2)), prev.registers) < maxSize)
          => cellAfter(operandWord(1)) =
               readResolved(Mem(U16(prev.ip + 2)), prev.registers)]_vars

\* after not r1 r0; not r2 r1 with r0 = 21845 (alternating bits)
C14_Witness ==
  /\ lastOp = 14
  /\ status = "running"
  /\ registers[0] = 21845
  /\ registers[1] = 10922
  /\ registers[2] = 21845
  /\ Mem(prev.ip + 2) = 32769

\* C15: set of register R (operand word 32768 + R) to the word V makes an
\* operand that names R read as V, and changes no other register, no memory
\* cell and not the stack; a push of R that follows pushes V.
C15_SetThenRead ==
  [][/\ (/\ atOp(1) /\ operandsValid(2)
         /\ isReg(operandWord(1))
         /\ operandValue(2) < maxSize)
          => (/\ status' = "running"
              /\ readResolved(operandWord(1), registers') = operandValue(2)
              /\ \A r \in DOMAIN registers :
                   r # operandWord(1) % maxSize => registers'[r] = registers[r]
              /\ UNCHANGED <<memory, stack>>)
     /\ (/\ atOp(2) /\ lastOp = 1 /\ Len(stack) < MaxStack
         /\ operandInRange(1)
         /\ isReg(operandWord(1))
         /\ operandWord(1) = Mem(U16(prev.ip + 1))
         /\ readResolved(Mem(U16(prev.ip + 2)), prev.registers) < maxSize)
          => stack' = Append(stack, readResolved(Mem(U16(prev.ip + 2)), prev.registers))]_vars

\* after set r7 r0 with r0 = 3 and the push r7 that follows
C15_Witness ==
  /\ lastOp = 2
  /\ status = "running"
  /\ ip >= 5
  /\ Mem(ip - 5) = 1
  /\ Mem(ip - 4) = 32775
  /\ Mem(ip - 3) = 32768
  /\ Mem(ip - 1) = 32775
  /\ registers[0] = 3
  /\ registers[7] = 3
  /\ stack # <<>>
  /\ stack[Len(stack)] = 3

\* word i of the file: byte 2i + 256 * byte 2i+1 when both bytes are in the
\* file and i is an address, else 0
imageWord(i) ==
  IF i < maxSize /\ 2 * i + 1 < image.len
  THEN imgByte(image, 2 * i) + 256 * imgByte(image, 2 * i + 1)
  ELSE 0

\* C16: loading a file of any byte length succeeds; memory word i is
\* byte[2i] + 256 * byte[2i+1] for every word fully in the file, every other
\* word is 0, and bytes beyond 65536 are ignored.
C16_LoadAnyLength ==
  (status # "new" /\ err # "read_file" /\ lastOp = -1)
    => (/\ status = "running"
        /\ \A i \in DOMAIN memory \cup {j \div 2 : j \in DOMAIN image.bytes} :
             Mem(i) = imageWord(i))

\* the widths the claim lists: 1 + the number of operands
claimedWidth(op) ==
  IF op \in {4, 5, 9, 10, 11, 12, 13} THEN 4
  ELSE IF op \in {1, 14, 15, 16} THEN 3
  ELSE IF op \in {2, 3, 19, 20} THEN 2
  ELSE 1

DestOps == {3, 4, 5, 9, 10, 11, 12, 13, 14, 15, 20}

\* the instructions the claim lists as writing no register and no memory
NoDestOps == {0, 2, 6, 7, 8, 17, 18, 19, 21}

\* C18: a step of pop, eq, gt, add, mult, mod, and, or, not, rmem or in with
\* the destination word d changes no storage cell other than register
\* d mod 32768 (d >= 32768) or memory[d] (d < 32768); a step of push, jmp,
\* jt, jf, call, ret, out, noop or halt changes no register and no memory
\* cell.
C18_Frame ==
  [][(status = "running" /\ ip < maxSize)
       => (/\ (Mem(ip) \in DestOps /\ ~operandInRange(1))
                => (registers' = registers /\ memory' = memory)
           /\ (Mem(ip) \in DestOps /\ operandInRange(1) /\ isReg(operandWord(1)))
                => (/\ memory' = memory
                    /\ \A r \in DOMAIN registers :
                         r # operandWord(1) % maxSize
                           => registers'[r] = registers[r])
           /\ (Mem(ip) \in DestOps /\ operandInRange(1) /\ ~isReg(operandWord(1)))
                => (/\ registers' = registers
                    /\ \A a \in DOMAIN memory \cup DOMAIN memory' :
                         a # operandWord(1) => Mem(a)' = Mem(a))
           /\ Mem(ip) \in NoDestOps
                => (registers' = registers /\ memory' = memory))]_vars

\* after add r0 3 3: register 0 holds 6 and no other register changed
C18_Witness ==
  /\ lastOp = 9
  /\ status = "running"
  /\ Mem(prev.ip + 1) = 32768
  /\ registers[0] = 6
  /\ prev.registers[0] # 6
  /\ \A r \in 1 .. 7 : registers[r] = prev.registers[r]

\* C19: an in that reads byte 13 leaves its destination and all other state
\* as they were and advances ip by 2; an in that reads any other byte c into
\* a valid destination (a memory address or a register 0..7) leaves c in the
\* destination and advances ip by 2.
C19_InCarriageReturn ==
  [][(atOp(20) /\ operandInRange(1))
       => (/\ lastIn' = 13
                => (/\ ip' = ip + 2
                    /\ UNCHANGED <<memory, registers, stack, status, err, output>>)
           /\ (lastIn' # 13 /\ ~namesInvalidRegister(operandWord(1)))
                => (/\ cellAfter(operandWord(1)) = lastIn'
                    /\ ip' = ip + 2
                    /\ status' = "running"))]_vars

\* after an in that read byte 13 into a register holding 3: still 3
C19_Witness ==
  /\ lastOp = 20
  /\ lastIn = 13
  /\ status = "running"
  /\ ip = prev.ip + 2
  /\ isReg(Mem(prev.ip + 1))
  /\ ~namesInvalidRegister(Mem(prev.ip + 1))
  /\ registers[Mem(prev.ip + 1) % maxSize] # 0
  /\ registers = prev.registers

\* C20: set never writes memory.  A set whose raw destination word d is a
\* literal in 0 .. 7 leaves the value of its second operand in register d,
\* as it does for the word 32768 + d, changes no other register, and no
\* step of set changes memory.
C20_SetNeverWritesMemory ==
  [][atOp(1)
       => (/\ memory' = memory
           /\ (operandsValid(2) /\ operandWord(1) \in 0 .. numRegisters - 1)
                => (/\ registers' = [registers EXCEPT
                                       ![operandWord(1)] = operandValue(2)]
                    /\ ip' = ip + 3
                    /\ status' = "running"))]_vars

\* after set 3 32767: register 3 holds 32767 and memory[3] is untouched
C20_Witness ==
  /\ lastOp = 1
  /\ status = "running"
  /\ Mem(prev.ip + 1) = 3
  /\ Mem(prev.ip + 2) = 32767
  /\ registers[3] = 32767
  /\ prev.registers[3] # 32767
  /\ Mem(3) # 32767

====
